---------------------------- MODULE Spec2Model ----------------------------
(***************************************************************************)
(* A model of merlin/loader/loader_base.py: LoaderBase (the consumer side: *)
(* __iter__, _get_next_batch, _fetch_chunk, stop, make_tensors and the     *)
(* lazy _handle_tensors conversion) and ChunkQueue (the worker thread:     *)
(* load_chunks, chunk_logic, batch, put, get_batch_div_chunk).             *)
(*                                                                         *)
(* Rows of the shard's stream are numbered 1..R in stream order; a table   *)
(* (partition, chunk, spill, batch) is the sequence of its row numbers.    *)
(* The dataset has one list column; seqLen(r) is the length of row r's     *)
(* list in that column.                                                    *)
(***************************************************************************)
EXTENDS Integers, Sequences, FiniteSets, TLC

\* ------------------------------------------------------------------ bounds
MaxPartitions == 3      \* partitions in the shard's stream: 1..MaxPartitions
MaxPartRows == 2        \* rows of one partition: 0..MaxPartRows
MaxBatch == 2           \* batch_size: 1..MaxBatch
SeqLimit == 2           \* the value_count.max the schema gives the list column
MaxShardPartitions == 4 \* partitions of a sharded dataset: 1..MaxShardPartitions
MaxShards == 5          \* global_size of a sharded run: 1..MaxShards
MaxShuffleRows == 3     \* rows of a stream whose rows are shuffled

\* ------------------------------------------------------- program constants
qsize == 1              \* ChunkQueue(self, 1, ...): one chunk in the queue

None == "None"
ListColumn == "list_col"
\* a column schema without value_count
NoValueCount == [min |-> -1, max |-> -1]
\* self._batch_itr = None
NoItr == [set |-> FALSE, batches |-> <<>>, pos |-> 0, closed |-> FALSE]
\* no put() in progress
NoPacket == [type |-> "none", batches |-> <<>>, part |-> 0]

VARIABLES
    \* construction parameters of the loader and the dataset (never change)
    batch_size, parts_per_chunk, drop_last, value_count,
    shuffle,            \* self.shuffle: rows of a chunk are shuffled
    npartitions,        \* dataset.npartitions: len(self.indices)
    global_size,        \* the number of processes the dataset is sharded over
    global_rank,        \* the rank of this process: 0..global_size - 1
    partitions,         \* the stream _data_iter gives this process: the row
                        \* counts of the partitions of its block, in order
    failPart,           \* the partition whose read raises in the worker, 0: none
    \* LoaderBase fields
    workers,            \* self._workers: None or "thread"
    batch_itr,          \* self._batch_itr: NoItr or the generator over a chunk:
                        \* its raw batches, how many it has handed out, and
                        \* whether an exception raised inside has finished it
    num_rows_processed, \* self.num_rows_processed
    \* ChunkQueue fields
    stop_event,         \* self._stop_event.is_set()
    q_out,              \* self.q_out: the items in the queue, oldest first
    \* the worker thread running load_chunks
    alive,              \* Thread.is_alive() of the thread in self._workers
    nthreads,           \* the load_chunks threads started and not yet ended
    wpc,                \* the worker's position
    itr,                \* the partition the stream iterator yields next
    spill,              \* chunk_logic's local spill
    packet,             \* the argument of the put() in progress
    wret,               \* where put() returns to: "loop" or "exit"
    \* the caller's thread
    cpc,                \* the caller's position inside the call in progress
    call,               \* the API call in progress or last completed
    ret,                \* where stop() returns to
    result,             \* how the last completed call ended
    raised,             \* the worker's exception the last call re-raised:
                        \* the partition it came from, 0: none
    \* history, for stating properties
    yielded,            \* the batches returned to the caller since __iter__
    produced,           \* the batches the worker enqueued since __iter__
    convErrors,         \* conversion errors raised to the caller since __iter__
    afterStop,          \* 1: a stop() made mid-epoch has just returned;
                        \* 2: the call in progress / just completed is the
                        \*    next_batch() that directly follows it;
                        \* 3: it is the begin_epoch() that directly follows it;
                        \* 4: it is the next_batch() that directly follows
                        \*    that begin_epoch(); 0: else
    cold,               \* the call in progress / just completed is a
                        \* next_batch() made with no worker list
    firstEpoch,         \* the log of the epochs run to the end-of-epoch
                        \* signal: the totals of the first one and how many
                        \* there were (NoLog: no log is kept)
    delivered           \* the (values, index) pairs of the list column in the
                        \* batches returned since __iter__ (NoLists: no log
                        \* is kept)

cfgVars == <<batch_size, parts_per_chunk, drop_last, value_count, shuffle,
             npartitions,
             global_size, global_rank, partitions, failPart>>
loaderVars == <<workers, batch_itr, num_rows_processed>>
queueVars == <<stop_event, q_out>>
workerVars == <<alive, nthreads, wpc, itr, spill, packet, wret>>
callerVars == <<cpc, call, ret, result, raised>>
histVars == <<yielded, produced, convErrors, afterStop, cold, firstEpoch,
              delivered>>
vars == <<cfgVars, loaderVars, queueVars, workerVars, callerVars, histVars>>

\* ----------------------------------------------------------------- helpers
RECURSIVE SumTo(_, _)
SumTo(s, n) == IF n = 0 THEN 0 ELSE SumTo(s, n - 1) + s[n]

Range(lo, hi) == [i \in 1..(IF hi >= lo THEN hi - lo + 1 ELSE 0) |-> lo + i - 1]

RECURSIVE Flatten(_)
Flatten(ss) == IF ss = <<>> THEN <<>> ELSE Head(ss) \o Flatten(Tail(ss))

Min(a, b) == IF a < b THEN a ELSE b

_num_steps(num_samples, step_size) ==
    (num_samples + step_size - 1) \div step_size

\* ------------------------------------------------------ the dataset stream
\* a variant that rounds the block size down
_indices_for_process_floor(rank) ==
    LET per_worker == npartitions \div global_size
        start == rank * per_worker
    IN  Range(start, Min(start + per_worker, npartitions) - 1)

\* LoaderBase._indices_for_process past its check, for the process of the
\* given rank: the slice [start : start + per_worker] of self.indices, which
\* with shuffle off are the partition positions 0..P-1 in order
_indices_for_process(rank) ==
    LET per_worker == _num_steps(npartitions, global_size)
        start == rank * per_worker
    IN  Range(start, Min(start + per_worker, npartitions) - 1)

\* a variant of the check that also refuses one partition a process
_indices_for_process_raises_eq == npartitions <= global_size

\* the check of _indices_for_process: it raises IndexError when there are
\* more processes than partitions
_indices_for_process_raises == npartitions < global_size

\* LoaderBase._data_iter: the iterator ChunkQueue keeps in self.itr, over the
\* partitions of this process's block of the dataset, in index order (the
\* dataset is the sequence of the row counts of its partitions)
_data_iter(dataset) ==
    LET indices == _indices_for_process(global_rank)
    IN  [k \in 1..Len(indices) |-> dataset[indices[k] + 1]]

\* rows of the whole stream, and of partition i (to_iter yields the partitions
\* of the block in index order; shuffle is off)
TotalRows == SumTo(partitions, Len(partitions))
PartRows(i) == Range(SumTo(partitions, i - 1) + 1, SumTo(partitions, i))

\* the length of row r's list in the list column: the rows' lengths run
\* through 1..SeqLimit + 1, so that some rows are longer than SeqLimit
seqLen(r) == 1 + (r % (SeqLimit + 1))

\* ---------------------------------------------------------- pure functions
\* a variant that forgets the dropped batch
__len__no_drop == _num_steps(TotalRows, batch_size)

__len__ ==
    LET batches == _num_steps(TotalRows, batch_size)
    IN  IF drop_last /\ TotalRows % batch_size > 0 THEN batches - 1 ELSE batches

\* LoaderBase.__init__: the list column gets a sparse_max entry only when its
\* value_count has min = max
sparse_max ==
    IF value_count # NoValueCount /\ value_count.min = value_count.max
    THEN [c \in {ListColumn} |-> value_count.max]
    ELSE <<>>

\* a variant that cuts the chunk but loses the remainder
get_batch_div_chunk_no_spill(chunks, bs) ==
    LET spill_idx == (Len(chunks) \div bs) * bs
    IN  [chunks |-> SubSeq(chunks, 1, spill_idx), spill |-> <<>>]

\* a variant that keeps the whole table as the head
get_batch_div_chunk_whole(chunks, bs) ==
    [chunks |-> chunks, spill |-> <<>>]

get_batch_div_chunk(chunks, bs) ==
    LET spill_idx == (Len(chunks) \div bs) * bs
    IN  [chunks |-> SubSeq(chunks, 1, spill_idx),
         spill |-> SubSeq(chunks, spill_idx + 1, Len(chunks))]

\* a variant that gives the last batch the rows of a full one as well
_get_segment_lengths_merged(num_samples) ==
    LET num_full_batches == _num_steps(num_samples, batch_size) - 2
    IN  [i \in 1..(IF num_full_batches > 0 THEN num_full_batches ELSE 0)
             |-> batch_size]
        \o <<num_samples
              - (IF num_full_batches > 0 THEN num_full_batches ELSE 0) * batch_size>>

_get_segment_lengths(num_samples) ==
    LET num_full_batches == _num_steps(num_samples, batch_size) - 1
    IN  [i \in 1..(IF num_full_batches > 0 THEN num_full_batches ELSE 0)
             |-> batch_size]
        \o <<num_samples - num_full_batches * batch_size>>

\* split(tensor, sizes): consecutive pieces of the given sizes
RECURSIVE _split_fn(_, _)
_split_fn(tensor, idx) ==
    IF idx = <<>> THEN <<>>
    ELSE <<SubSeq(tensor, 1, Min(Head(idx), Len(tensor)))>>
         \o _split_fn(SubSeq(tensor, Head(idx) + 1, Len(tensor)), Tail(idx))

\* make_tensors up to its return statement: the chunk cut into raw batches.
\* The conversion of each raw batch (_handle_tensors) is deferred: the value
\* returned is a generator that converts a batch when the caller asks for it.
make_tensors(gdf) ==
    LET split_idx == _get_segment_lengths(Len(gdf))
    IN  IF Len(split_idx) > 1 THEN _split_fn(gdf, split_idx)
        ELSE [i \in 1..Len(split_idx) |-> gdf]

\* the elements of the list of row r
leaves(r) == [k \in 1..seqLen(r) |-> <<r, k>>]

\* merlin.core.dispatch.pull_apart_list: the flat values of the list column
\* and its offsets, 0 followed by the running total of the list lengths
RECURSIVE pull_apart_list(_)
pull_apart_list(column) ==
    IF column = <<>> THEN [values |-> <<>>, offsets |-> <<0>>]
    ELSE LET front == pull_apart_list(SubSeq(column, 1, Len(column) - 1))
             r == column[Len(column)]
         IN  [values |-> front.values \o leaves(r),
              offsets |-> Append(front.offsets, Len(front.values) + seqLen(r))]

\* a variant that ends a batch's values where its last row starts
make_tensors_lists_short(gdf) ==
    LET split_idx == _get_segment_lengths(Len(gdf))
        lists == pull_apart_list(gdf)
        batch_offsets == _split_fn(lists.offsets, split_idx \o <<1>>)
    IN  [n \in 1..Len(split_idx) |->
            LET off0 == batch_offsets[n]
                start == off0[1]
                stop == off0[Len(off0)]
            IN  [value |-> SubSeq(lists.values, start + 1, stop),
                 index |-> [i \in 1..Len(off0) |-> off0[i] - start]]]

\* make_tensors, the list column (use_nnz False): the offsets are cut with
\* split_idx + [1], and batch n gets values[start:stop], start and stop the
\* first offsets of pieces n and n + 1, and the offsets of piece n less start
make_tensors_lists(gdf) ==
    LET split_idx == _get_segment_lengths(Len(gdf))
        lists == pull_apart_list(gdf)
        batch_offsets == _split_fn(lists.offsets, split_idx \o <<1>>)
    IN  [n \in 1..Len(split_idx) |->
            LET off0 == batch_offsets[n]
                off1 == batch_offsets[n + 1]
                start == off0[1]
                stop == off1[1]
            IN  [value |-> SubSeq(lists.values, start + 1, stop),
                 index |-> [i \in 1..Len(off0) |-> off0[i] - start]]]

\* the largest list length of the batch (max of offsets[1:] - offsets[:-1])
_get_max_seq_len(batch) ==
    IF batch = <<>> THEN 0
    ELSE CHOOSE m \in {seqLen(batch[i]) : i \in 1..Len(batch)} :
             \A i \in 1..Len(batch) : seqLen(batch[i]) <= m

\* the per-row counts of the [num_rows, seq_limit] container, which has room
\* for seq_limit elements a row
_build_sparse_tensor(batch, seq_limit) ==
    [i \in 1..Len(batch) |-> Min(seqLen(batch[i]), seq_limit)]

\* a variant without the length check
_to_sparse_tensor_unchecked(batch, column_name) ==
    [ok |-> TRUE, lens |-> _build_sparse_tensor(batch, sparse_max[column_name])]

\* _to_sparse_tensor: raises ValueError (ok = FALSE) or returns the
\* materialized column
_to_sparse_tensor(batch, column_name) ==
    LET seq_limit == sparse_max[column_name]
        max_seq_len == _get_max_seq_len(batch)
    IN  IF max_seq_len > seq_limit THEN [ok |-> FALSE, lens |-> <<>>]
        ELSE [ok |-> TRUE, lens |-> _build_sparse_tensor(batch, seq_limit)]

\* _handle_tensors: the converted batch, or the ValueError (ok = FALSE). A
\* list column with no sparse_max entry stays a (values, offsets) pair,
\* whatever its lengths.
_handle_tensors(batch) ==
    LET X == IF ListColumn \in DOMAIN sparse_max
             THEN _to_sparse_tensor(batch, ListColumn)
             ELSE [ok |-> TRUE, lens |-> [i \in 1..Len(batch) |-> seqLen(batch[i])]]
    IN  [ok |-> X.ok, rows |-> batch, lens |-> X.lens]

\* ------------------------------------------------------------------- Init
\* the values of parts_per_chunk: one partition a chunk, or several
PartsPerChunk == {1, 2}

PartitionSets ==
    UNION {[1..n -> 0..MaxPartRows] : n \in 1..MaxPartitions}

\* the value_count of the list column: a fixed length, or a range of lengths
\* (a column without value_count is treated as one with a range: neither
\* gets a sparse_max entry)
ValueCounts ==
    {[min |-> SeqLimit, max |-> SeqLimit], [min |-> 0, max |-> SeqLimit]}

\* the epochs a log counts
MaxLogged == 2

\* no log of finished epochs is kept / a log is kept and no epoch has finished
NoLog == [kept |-> FALSE, ended |-> 0, rows |-> 0, batches |-> 0]
EmptyLog == [kept |-> TRUE, ended |-> 0, rows |-> 0, batches |-> 0]

\* no log of the delivered list pairs is kept / one is kept and is empty
NoLists == [kept |-> FALSE, lists |-> <<>>]
EmptyLists == [kept |-> TRUE, lists |-> <<>>]

\* a loader over the whole dataset: one process, rank 0
SingleShard ==
    /\ batch_size \in 1..MaxBatch
    /\ parts_per_chunk \in PartsPerChunk
    /\ drop_last \in BOOLEAN
    /\ value_count \in ValueCounts
    /\ global_size = 1
    /\ global_rank = 0
    /\ \E dataset \in PartitionSets :
           /\ npartitions = Len(dataset)
           /\ partitions = _data_iter(dataset)
    /\ failPart \in 0..Len(partitions)

\* the loader after LoaderBase.__init__: no worker list, no cursor, and no
\* ChunkQueue yet (it is made on the first use of self._buff)
Constructed ==
    /\ workers = None
    /\ batch_itr = NoItr
    /\ num_rows_processed = 0
    /\ stop_event = FALSE
    /\ q_out = <<>>
    /\ alive = FALSE
    /\ nthreads = 0
    /\ wpc = "done"
    /\ itr = 1
    /\ spill = <<>>
    /\ packet = NoPacket
    /\ wret = "exit"
    /\ cpc = "idle"
    /\ call = "none"
    /\ ret = "none"
    /\ result = "none"
    /\ raised = 0
    /\ yielded = <<>>
    /\ produced = <<>>
    /\ convErrors = 0
    /\ afterStop = 0
    /\ cold = FALSE

Init ==
    /\ SingleShard /\ shuffle = FALSE /\ Constructed
    /\ firstEpoch = NoLog /\ delivered = NoLists

\* ------------------------------------------------------ the worker thread
\* ChunkQueue.batch: the partitions of the next group, up to num_parts of them
batch(i) == Range(i, Min(i + parts_per_chunk - 1, Len(partitions)))

\* rows of the partitions itr .. last, concatenated
RECURSIVE concat(_, _)
concat(first, last) ==
    IF first > last THEN <<>> ELSE PartRows(first) \o concat(first + 1, last)

\* a variant that appends the spill instead
append_spill(sp, first, last) == concat(first, last) \o sp

\* chunks.insert(0, spill); chunks = concat(chunks): the carried spill in
\* front of the partitions first .. last
insert_spill(sp, first, last) == sp \o concat(first, last)

\* merlin.io.shuffle_df: the tables it may return, the rows of df in any order
shuffle_df(df) ==
    IF df = <<>> THEN {<<>>}
    ELSE {[i \in 1..Len(df) |-> df[f[i]]] : f \in Permutations(1..Len(df))}

\* a variant that shuffles the concatenation before it is cut
shuffle_split(chunks) ==
    IF shuffle
    THEN {get_batch_div_chunk(c, batch_size) : c \in shuffle_df(chunks)}
    ELSE {get_batch_div_chunk(chunks, batch_size)}

\* chunk_logic: chunks, spill = self.get_batch_div_chunk(...) and then
\* if self.shuffle: chunks = shuffle_df(chunks): the pairs this may give
split_shuffle(chunks) ==
    LET div == get_batch_div_chunk(chunks, batch_size)
    IN  IF shuffle
        THEN {[chunks |-> c, spill |-> div.spill] : c \in shuffle_df(div.chunks)}
        ELSE {div}

ExcPacket(part) == [type |-> "exc", batches |-> <<>>, part |-> part]
ChunkPacket(batches) == [type |-> "chunk", batches |-> batches, part |-> 0]

\* One round of chunk_logic's loop, from pulling the next group of partitions
\* (local to the worker) to the point where the round's chunk is ready to be
\* put, or the code after the loop when the stream is exhausted.
chunk_logic ==
    /\ alive /\ wpc = "loop"
    /\ IF itr > Len(partitions)
       THEN \* the loop is over: the final batch, less than batch_size
            /\ IF ~drop_last /\ spill # <<>>
               THEN /\ packet' = ChunkPacket(make_tensors(spill))
                    /\ wpc' = "put"
                    /\ wret' = "exit"
               ELSE /\ wpc' = "exit"
                    /\ UNCHANGED <<packet, wret>>
            /\ UNCHANGED <<itr, spill>>
       ELSE LET group == batch(itr)
                last == group[Len(group)]
            IN  /\ itr' = last + 1
                /\ IF failPart \in itr..last
                   THEN \* load_chunks: except Exception as e: self.put(e)
                        /\ packet' = ExcPacket(failPart)
                        /\ wpc' = "put"
                        /\ wret' = "exit"
                        /\ UNCHANGED spill
                   ELSE IF stop_event
                   THEN /\ wpc' = "exit"
                        /\ UNCHANGED <<spill, packet, wret>>
                   ELSE \E div \in split_shuffle(insert_spill(spill, itr, last)) :
                            /\ spill' = div.spill
                            /\ IF Len(div.chunks) > 0
                               THEN /\ packet' = ChunkPacket(make_tensors(div.chunks))
                                    /\ wpc' = "put"
                                    /\ wret' = "loop"
                               ELSE UNCHANGED <<wpc, packet, wret>>
    /\ UNCHANGED <<alive, nthreads, cfgVars, loaderVars, queueVars, callerVars, histVars>>

\* a variant of put's loop that never looks at the stop flag
put_check_blind ==
    /\ alive /\ wpc = "put"
    /\ wpc' = "put_try"
    /\ UNCHANGED <<alive, nthreads, itr, spill, packet, wret>>
    /\ UNCHANGED <<cfgVars, loaderVars, queueVars, callerVars, histVars>>

\* ChunkQueue.put, the head of its loop: if self.stopped: return True
\* (every caller of put returns or ends when put returns True)
put_check ==
    /\ alive /\ wpc = "put"
    /\ wpc' = IF stop_event THEN "exit" ELSE "put_try"
    /\ UNCHANGED <<alive, nthreads, itr, spill, packet, wret>>
    /\ UNCHANGED <<cfgVars, loaderVars, queueVars, callerVars, histVars>>

\* a variant that gives up on a full queue instead of trying again
put_once ==
    /\ alive /\ wpc = "put_try"
    /\ IF Len(q_out) < qsize
       THEN /\ q_out' = Append(q_out, packet)
            /\ produced' = produced \o packet.batches
       ELSE UNCHANGED <<q_out, produced>>
    /\ wpc' = wret
    /\ UNCHANGED <<alive, nthreads, itr, spill, packet, wret, stop_event>>
    /\ UNCHANGED <<cfgVars, loaderVars, callerVars>>
    /\ UNCHANGED <<yielded, convErrors, afterStop, cold, firstEpoch, delivered>>

\* a variant over a queue without a size
put_unbounded ==
    /\ alive /\ wpc = "put_try"
    /\ q_out' = Append(q_out, packet)
    /\ produced' = produced \o packet.batches
    /\ wpc' = wret
    /\ UNCHANGED <<alive, nthreads, itr, spill, packet, wret, stop_event>>
    /\ UNCHANGED <<cfgVars, loaderVars, callerVars>>
    /\ UNCHANGED <<yielded, convErrors, afterStop, cold, firstEpoch, delivered>>

\* ChunkQueue.put: self.q_out.put(packet, timeout=self.put_wait); queue.Full
\* sends it back to the head of the loop
put ==
    /\ alive /\ wpc = "put_try"
    /\ IF Len(q_out) < qsize
       THEN /\ q_out' = Append(q_out, packet)
            /\ produced' = produced \o packet.batches
            /\ wpc' = wret
       ELSE /\ wpc' = "put"
            /\ UNCHANGED <<q_out, produced>>
    /\ UNCHANGED <<alive, nthreads, itr, spill, packet, wret, stop_event>>
    /\ UNCHANGED <<cfgVars, loaderVars, callerVars>>
    /\ UNCHANGED <<yielded, convErrors, afterStop, cold, firstEpoch, delivered>>

\* load_chunks returns: the thread ends
load_chunks_return ==
    /\ alive /\ wpc = "exit"
    /\ alive' = FALSE
    /\ nthreads' = nthreads - 1
    /\ wpc' = "done"
    /\ UNCHANGED <<itr, spill, packet, wret>>
    /\ UNCHANGED <<cfgVars, loaderVars, queueVars, callerVars, histVars>>

Worker == chunk_logic \/ put_check \/ put \/ load_chunks_return

\* ------------------------------------------------------------- the caller
\* a variant that never sees a live thread
_working_never == FALSE

\* LoaderBase._working
_working == workers # None /\ alive

\* the feature columns of a converted batch: the keys of the dictionary X
FeatureColumns == {ListColumn}

\* the worker thread is in the middle of an epoch
MidEpoch == workers # None /\ alive /\ wpc \in {"loop", "put", "put_try"}

\* LoaderBase.stop, from its first line to its first wait: with no worker it
\* only clears the cursor and is over (cpc' = over); with one it sets the
\* stop flag (ChunkQueue.stop's first line) and goes on in stop_clear
stop_enter(to, over) ==
    IF workers = None
    THEN /\ batch_itr' = NoItr
         /\ cpc' = over
         /\ ret' = "none"
         /\ UNCHANGED <<workers, queueVars>>
    ELSE /\ stop_event' = TRUE
         /\ cpc' = IF stop_event THEN "join" ELSE "stop_clear"
         /\ ret' = to
         /\ UNCHANGED <<workers, batch_itr, q_out>>

\* the caller calls stop()
stop ==
    /\ cpc = "idle"
    /\ call' = "stop"
    /\ afterStop' = IF MidEpoch THEN 1 ELSE 0
    /\ stop_enter("stop", "idle")
    /\ result' = IF workers = None THEN "ok" ELSE "pending"
    /\ raised' = 0
    /\ cold' = FALSE
    /\ UNCHANGED <<cfgVars, num_rows_processed, workerVars>>
    /\ UNCHANGED <<yielded, produced, convErrors, firstEpoch, delivered>>

\* ChunkQueue.stop, its second line: self.q_out.queue.clear()
stop_clear ==
    /\ cpc = "stop_clear"
    /\ q_out' = <<>>
    /\ cpc' = "join"
    /\ UNCHANGED <<cfgVars, loaderVars, stop_event, workerVars>>
    /\ UNCHANGED <<call, ret, result, raised, histVars>>

\* a variant of stop's tail without the second clear of the queue
join_no_clear ==
    /\ cpc = "join"
    /\ ~alive
    /\ workers' = None
    /\ batch_itr' = NoItr
    /\ ret' = "none"
    /\ cpc' = IF ret = "iter" THEN "iter" ELSE "idle"
    /\ result' = CASE ret = "iter" -> result
                   [] ret = "raise" -> "Exception"
                   [] OTHER -> "ok"
    /\ UNCHANGED <<cfgVars, num_rows_processed, queueVars, workerVars>>
    /\ UNCHANGED <<call, raised, histVars>>

\* a variant of stop's tail that does not wait for the thread
join_no_wait ==
    /\ cpc = "join"
    /\ workers' = None
    /\ q_out' = <<>>
    /\ batch_itr' = NoItr
    /\ ret' = "none"
    /\ cpc' = IF ret = "iter" THEN "iter" ELSE "idle"
    /\ result' = CASE ret = "iter" -> result
                   [] ret = "raise" -> "Exception"
                   [] OTHER -> "ok"
    /\ UNCHANGED <<cfgVars, num_rows_processed, stop_event, workerVars>>
    /\ UNCHANGED <<call, raised, histVars>>

\* a variant of stop's tail that keeps the list of joined threads
join_keep_workers ==
    /\ cpc = "join"
    /\ ~alive
    /\ q_out' = <<>>
    /\ batch_itr' = NoItr
    /\ ret' = "none"
    /\ cpc' = IF ret = "iter" THEN "iter" ELSE "idle"
    /\ result' = CASE ret = "iter" -> result
                   [] ret = "raise" -> "Exception"
                   [] OTHER -> "ok"
    /\ UNCHANGED <<cfgVars, workers, num_rows_processed, stop_event, workerVars>>
    /\ UNCHANGED <<call, raised, histVars>>

\* LoaderBase.stop from t.join() on: the join returns once the thread has
\* ended; then the worker list, the queue and the cursor are cleared
join ==
    /\ cpc = "join"
    /\ ~alive
    /\ workers' = None
    /\ q_out' = <<>>
    /\ batch_itr' = NoItr
    /\ ret' = "none"
    /\ cpc' = IF ret = "iter" THEN "iter" ELSE "idle"
    /\ result' = CASE ret = "iter" -> result
                   [] ret = "raise" -> "Exception"
                   [] OTHER -> "ok"
    /\ UNCHANGED <<cfgVars, num_rows_processed, stop_event, workerVars>>
    /\ UNCHANGED <<call, raised, histVars>>

\* the caller calls begin_epoch(): LoaderBase.__iter__, which starts with
\* self.stop()
begin_epoch ==
    /\ cpc = "idle"
    /\ call' = "begin"
    /\ afterStop' = IF afterStop = 1 THEN 3 ELSE 0
    /\ stop_enter("iter", "iter")
    /\ result' = "pending"
    /\ raised' = 0
    /\ cold' = FALSE
    /\ UNCHANGED <<cfgVars, num_rows_processed, workerVars>>
    /\ UNCHANGED <<yielded, produced, convErrors, firstEpoch, delivered>>

\* a variant in which the new thread goes on with the iterator of the last one
load_chunks_enter_no_rewind ==
    /\ wpc' = "loop"
    /\ spill' = <<>>
    /\ packet' = NoPacket
    /\ wret' = "loop"
    /\ UNCHANGED itr

\* a variant in which the new thread takes over the spill of the last one
load_chunks_enter_keep_spill ==
    /\ wpc' = "loop"
    /\ itr' = 1
    /\ packet' = NoPacket
    /\ wret' = "loop"
    /\ UNCHANGED spill

\* the new thread enters load_chunks and chunk_logic: itr = iter(self.itr) is
\* a fresh iterator of the stream, and spill = None
load_chunks_enter ==
    /\ wpc' = "loop"
    /\ itr' = 1
    /\ spill' = <<>>
    /\ packet' = NoPacket
    /\ wret' = "loop"

\* LoaderBase.__iter__ after its stop(): the counter is reset; the first use
\* of self._buff makes the ChunkQueue, whose __init__ calls _data_iter and so
\* _indices_for_process, which may raise; if not, the stop flag is cleared
\* and a new thread started on load_chunks
__iter__ ==
    /\ cpc = "iter"
    /\ num_rows_processed' = 0
    /\ IF _indices_for_process_raises
       THEN /\ cpc' = "idle"
            /\ result' = "IndexError"
            /\ UNCHANGED <<workers, stop_event, workerVars>>
            /\ UNCHANGED <<yielded, produced, convErrors, delivered>>
       ELSE /\ stop_event' = FALSE
            /\ workers' = "thread"
            /\ alive' = TRUE
            /\ nthreads' = nthreads + 1
            /\ load_chunks_enter
            /\ yielded' = <<>>
            /\ produced' = <<>>
            /\ convErrors' = 0
            /\ delivered' = [delivered EXCEPT !.lists = <<>>]
            /\ IF call = "next"
               THEN cpc' = "next" /\ UNCHANGED result
               ELSE cpc' = "idle" /\ result' = "ok"
    /\ UNCHANGED <<cfgVars, batch_itr, q_out, call, ret, raised>>
    /\ UNCHANGED <<afterStop, cold, firstEpoch>>

\* the rows returned to the caller since __iter__, in the order returned
YieldedRows == Flatten([i \in 1..Len(yielded) |-> yielded[i].rows])

\* the log after one more epoch has run to the end-of-epoch signal
LogEpoch ==
    IF ~firstEpoch.kept THEN firstEpoch
    ELSE [kept |-> TRUE,
          ended |-> Min(firstEpoch.ended + 1, MaxLogged),
          rows |-> IF firstEpoch.ended = 0 THEN Len(YieldedRows)
                   ELSE firstEpoch.rows,
          batches |-> IF firstEpoch.ended = 0 THEN Len(yielded)
                      ELSE firstEpoch.batches]

\* _get_next_batch from `if self._batch_itr is None` on
next_body ==
    IF ~batch_itr.set
    THEN \* self._fetch_chunk()
         /\ cpc' = "fetch"
         /\ result' = "pending"
         /\ UNCHANGED <<loaderVars, yielded, convErrors, firstEpoch, delivered>>
    ELSE IF ~batch_itr.closed /\ batch_itr.pos < Len(batch_itr.batches)
    THEN \* next(self._batch_itr) converts the next raw batch
         LET b == _handle_tensors(batch_itr.batches[batch_itr.pos + 1])
         IN  /\ cpc' = "idle"
             /\ UNCHANGED <<workers, firstEpoch>>
             /\ IF b.ok
                THEN /\ batch_itr' = [batch_itr EXCEPT !.pos = @ + 1]
                     /\ delivered' =
                            IF delivered.kept
                            THEN [delivered EXCEPT !.lists = Append(@,
                                     make_tensors_lists(Flatten(batch_itr.batches))
                                         [batch_itr.pos + 1])]
                            ELSE delivered
                     /\ num_rows_processed' =
                            num_rows_processed + Cardinality(FeatureColumns)
                     /\ yielded' = Append(yielded, [rows |-> b.rows, lens |-> b.lens])
                     /\ result' = "batch"
                     /\ UNCHANGED convErrors
                ELSE \* the exception ends the generator and reaches the caller
                     /\ batch_itr' = [batch_itr EXCEPT !.closed = TRUE]
                     /\ result' = "ValueError"
                     /\ convErrors' = convErrors + 1
                     /\ UNCHANGED <<num_rows_processed, yielded, delivered>>
    ELSE \* StopIteration from the cursor
         IF ~_working /\ q_out = <<>>
         THEN /\ workers' = None
              /\ batch_itr' = NoItr
              /\ cpc' = "idle"
              /\ result' = "StopIteration"
              /\ firstEpoch' = LogEpoch
              /\ UNCHANGED <<num_rows_processed, yielded, convErrors, delivered>>
         ELSE /\ cpc' = "fetch"
              /\ result' = "pending"
              /\ UNCHANGED <<loaderVars, yielded, convErrors, firstEpoch, delivered>>

\* a variant whose cold start begins the epoch and returns without a batch
next_batch_begin_only ==
    /\ cpc = "idle"
    /\ call' = IF workers = None THEN "begin" ELSE "next"
    /\ afterStop' = CASE afterStop = 1 -> 2 [] afterStop = 3 -> 4 [] OTHER -> 0
    /\ cold' = (workers = None)
    /\ raised' = 0
    /\ ret' = "none"
    /\ IF workers = None
       THEN /\ batch_itr' = NoItr
            /\ cpc' = "iter"
            /\ result' = "pending"
            /\ UNCHANGED <<workers, num_rows_processed, yielded, convErrors>>
            /\ UNCHANGED <<firstEpoch, delivered>>
       ELSE next_body
    /\ UNCHANGED <<cfgVars, queueVars, workerVars, produced>>

\* the caller calls next_batch(): _get_next_batch; with no worker list it
\* runs LoaderBase.__iter__ first, whose stop() only clears the cursor
next_batch ==
    /\ cpc = "idle"
    /\ call' = "next"
    /\ afterStop' = CASE afterStop = 1 -> 2 [] afterStop = 3 -> 4 [] OTHER -> 0
    /\ cold' = (workers = None)
    /\ raised' = 0
    /\ ret' = "none"
    /\ IF workers = None
       THEN /\ batch_itr' = NoItr
            /\ cpc' = "iter"
            /\ result' = "pending"
            /\ UNCHANGED <<workers, num_rows_processed, yielded, convErrors>>
            /\ UNCHANGED <<firstEpoch, delivered>>
       ELSE next_body
    /\ UNCHANGED <<cfgVars, queueVars, workerVars, produced>>

\* _get_next_batch goes on after __iter__ or _fetch_chunk
_get_next_batch ==
    /\ cpc = "next"
    /\ next_body
    /\ UNCHANGED <<cfgVars, queueVars, workerVars>>
    /\ UNCHANGED <<call, ret, raised, produced, afterStop, cold>>

\* a variant that re-raises the exception without stop()
_fetch_chunk_no_stop ==
    /\ cpc = "fetch"
    /\ q_out # <<>>
    /\ q_out' = Tail(q_out)
    /\ LET chunks == Head(q_out)
       IN  IF chunks.type = "exc"
           THEN /\ raised' = chunks.part
                /\ cpc' = "idle"
                /\ result' = "Exception"
                /\ UNCHANGED <<batch_itr, stop_event, ret>>
           ELSE /\ batch_itr' = [set |-> TRUE, batches |-> chunks.batches,
                                 pos |-> 0, closed |-> FALSE]
                /\ cpc' = "next"
                /\ UNCHANGED <<raised, stop_event, ret, result>>
    /\ UNCHANGED <<cfgVars, workers, num_rows_processed, workerVars>>
    /\ UNCHANGED <<call, histVars>>

\* _fetch_chunk: the blocking get; an exception is re-raised after stop()
_fetch_chunk ==
    /\ cpc = "fetch"
    /\ q_out # <<>>
    /\ q_out' = Tail(q_out)
    /\ LET chunks == Head(q_out)
       IN  IF chunks.type = "exc"
           THEN /\ raised' = chunks.part
                /\ stop_event' = TRUE
                /\ cpc' = IF stop_event THEN "join" ELSE "stop_clear"
                /\ ret' = "raise"
                /\ UNCHANGED batch_itr
           ELSE /\ batch_itr' = [set |-> TRUE, batches |-> chunks.batches,
                                 pos |-> 0, closed |-> FALSE]
                /\ cpc' = "next"
                /\ UNCHANGED <<raised, stop_event, ret>>
    /\ UNCHANGED <<cfgVars, workers, num_rows_processed, workerVars>>
    /\ UNCHANGED <<call, result, histVars>>

Caller ==
    \/ stop \/ stop_clear \/ join \/ begin_epoch \/ __iter__
    \/ next_batch \/ _get_next_batch \/ _fetch_chunk

Next == Worker \/ Caller

Spec == Init /\ [][Next]_vars

\* The loaders of at most two partitions whose list column has no fixed
\* length (no conversion fails)
FairInit ==
    /\ Init
    /\ Len(partitions) \in {1, 2}
    /\ value_count.min # value_count.max

\* Both threads are scheduled: the worker thread keeps running while it has a
\* step to take, and a caller inside stop() goes on with it.
FairSpec ==
    /\ FairInit /\ [][Next]_vars
    /\ WF_vars(Worker) /\ WF_vars(stop_clear) /\ WF_vars(join)

\* Sharded runs: a dataset of partitions of one row each, read by the
\* process of rank global_rank out of global_size processes
ShardInit ==
    /\ shuffle = FALSE
    /\ batch_size \in 1..MaxBatch
    /\ parts_per_chunk \in PartsPerChunk
    /\ drop_last \in BOOLEAN
    /\ value_count = [min |-> 0, max |-> SeqLimit]
    /\ global_size \in 1..MaxShards
    /\ global_rank \in 0..(global_size - 1)
    /\ \E dataset \in {[i \in 1..n |-> 1] : n \in 1..MaxShardPartitions} :
           /\ npartitions = Len(dataset)
           /\ partitions = _data_iter(dataset)
    /\ failPart = 0
    /\ Constructed
    /\ firstEpoch = NoLog
    /\ delivered = NoLists

ShardSpec == ShardInit /\ [][Next]_vars

\* The loaders of at most two partitions in which nothing fails, with a log of
\* the epochs that run to the end-of-epoch signal
ResumeInit ==
    /\ SingleShard
    /\ shuffle = FALSE
    /\ Len(partitions) \in {1, 2}
    /\ value_count.min # value_count.max
    /\ failPart = 0
    /\ Constructed
    /\ firstEpoch = EmptyLog
    /\ delivered = NoLists

ResumeSpec == ResumeInit /\ [][Next]_vars

\* The loaders with row shuffling on, of at most two partitions and
\* MaxShuffleRows rows, in which nothing fails. The order of the partitions
\* is the index order: the ChunkQueue takes its list of indices on the first
\* use of self._buff, before _shuffle_indices permutes self.indices.
ShuffleInit ==
    /\ SingleShard
    /\ shuffle = TRUE
    /\ Len(partitions) \in {1, 2}
    /\ TotalRows <= MaxShuffleRows
    /\ value_count.min # value_count.max
    /\ failPart = 0
    /\ Constructed
    /\ firstEpoch = NoLog
    /\ delivered = NoLists

ShuffleSpec == ShuffleInit /\ [][Next]_vars

\* The loaders of at most two partitions in which nothing fails and whose
\* list column has no sparse_max entry (it is delivered as the pair made by
\* make_tensors), with a log of the pairs delivered
ConvertInit ==
    /\ SingleShard
    /\ shuffle = FALSE
    /\ Len(partitions) \in {1, 2}
    /\ value_count.min # value_count.max
    /\ failPart = 0
    /\ Constructed
    /\ firstEpoch = NoLog
    /\ delivered = EmptyLists

ConvertSpec == ConvertInit /\ [][Next]_vars

\* ------------------------------------------------------------- properties
\* the worker of this epoch has pulled the partition whose read raises
Failed == failPart # 0 /\ itr > failPart

\* the last call raised the end-of-epoch signal in an epoch without failure
CleanEndOfEpoch ==
    cpc = "idle" /\ result = "StopIteration" /\ convErrors = 0 /\ ~Failed

\* the rows an epoch is to deliver
ExpectedRows ==
    IF drop_last THEN (TotalRows \div batch_size) * batch_size ELSE TotalRows

NoDuplicates(rows) ==
    \A i, j \in 1..Len(rows) : i # j => rows[i] # rows[j]

\* C1: an epoch run to the end-of-epoch signal without stop() or failure has
\* yielded every row of the stream exactly once: the row counts of its batches
\* sum to R, or to floor(R / batch_size) * batch_size with drop_last, no row is
\* yielded twice, and only the rows of the dropped final remainder are missing.
C1_EveryRowOnce ==
    CleanEndOfEpoch =>
        /\ Len(YieldedRows) = ExpectedRows
        /\ NoDuplicates(YieldedRows)
        /\ {YieldedRows[i] : i \in 1..Len(YieldedRows)} = 1..ExpectedRows

\* an epoch has ended in which a spill was carried over two rounds and then
\* emitted as the final batch
C1_Witness ==
    /\ CleanEndOfEpoch
    /\ ~drop_last
    /\ Len(partitions) = 3 /\ parts_per_chunk = 1 /\ batch_size = 2
    /\ TotalRows = 5
    /\ Len(yielded) = 3

\* C2 (as claimed): after the last batch of an epoch without stop() or failure
\* has been yielded, next_batch() is never left waiting on the empty queue of
\* a worker that has ended.
C2_NeverBlocksAtEnd ==
    ~ /\ cpc = "fetch"
      /\ q_out = <<>>
      /\ ~alive
      /\ yielded # <<>>
      /\ YieldedRows = Flatten(produced)
      /\ convErrors = 0 /\ ~Failed /\ ~stop_event

\* C3: with shuffle off and one shard, the batches yielded, put end to end, are
\* always the rows of the stream in input order from the first row on, and at
\* the end-of-epoch signal they are all of them (all up to the dropped
\* remainder with drop_last).
C3_InputOrder ==
    convErrors = 0 =>
        /\ YieldedRows = Range(1, Len(YieldedRows))
        /\ CleanEndOfEpoch => YieldedRows = Range(1, ExpectedRows)

\* an epoch has ended whose second batch is made of a carried spill row
\* followed by a row of the next round
C3_Witness ==
    /\ CleanEndOfEpoch
    /\ batch_size = 2 /\ parts_per_chunk = 1
    /\ partitions = <<2, 1, 1>>
    /\ Len(yielded) = 2
    /\ yielded[2].rows = <<3, 4>>

\* C4: every batch yielded has batch_size rows, except that the last batch of
\* the epoch has R mod batch_size rows when that is not 0 and drop_last is off
\* (it is then the last batch the worker makes, after the stream is
\* exhausted); no batch yielded has 0 rows.
C4_BatchSizes ==
    \A i \in 1..Len(yielded) :
        LET n == Len(yielded[i].rows)
        IN  /\ n > 0
            /\ \/ n = batch_size
               \/ /\ ~drop_last
                  /\ TotalRows % batch_size > 0
                  /\ n = TotalRows % batch_size
                  /\ i = Len(yielded)
                  /\ itr > Len(partitions)
                  /\ yielded[i].rows[n] = TotalRows

\* an undersized last batch has been yielded after two full ones of one chunk
C4_Witness ==
    /\ Len(yielded) = 3
    /\ batch_size = 2
    /\ Len(yielded[1].rows) = 2 /\ Len(yielded[2].rows) = 2
    /\ Len(yielded[3].rows) = 1
    /\ parts_per_chunk = 2

\* the worker has run the whole stream and ended, with no stop and no failure
WorkerCompleted ==
    /\ itr > Len(partitions)
    /\ wpc \in {"exit", "done"}
    /\ ~Failed /\ ~stop_event

\* C5: len(loader) is the number of batches of one complete epoch: the number
\* the worker has enqueued when it ends, and the number yielded when the
\* end-of-epoch signal is raised.
C5_LenIsBatchCount ==
    /\ WorkerCompleted => Len(produced) = __len__
    /\ CleanEndOfEpoch => Len(yielded) = __len__

\* an epoch with drop_last on and a dropped remainder has ended
C5_Witness ==
    /\ CleanEndOfEpoch
    /\ drop_last
    /\ TotalRows % batch_size > 0
    /\ Len(yielded) = 2

\* C6: a worker that raises without a stop request enqueues the exception
\* before it ends; the exception next_batch() raises is that one, and by then
\* every batch enqueued before it has been yielded (when it is the first
\* failure of the epoch); the end-of-epoch signal is never raised in its place.
C6_WorkerFailureReachesCaller ==
    /\ (Failed /\ wpc \in {"exit", "done"} /\ ~stop_event)
           => q_out = <<ExcPacket(failPart)>>
    /\ (cpc = "idle" /\ result = "Exception")
           => /\ Failed /\ raised = failPart
              /\ convErrors = 0 => YieldedRows = Flatten(produced)
    /\ (cpc = "idle" /\ result = "StopIteration") => ~Failed

\* the worker's exception has been raised after the batches of two chunks
C6_Witness ==
    /\ cpc = "idle" /\ result = "Exception" /\ raised = 3
    /\ parts_per_chunk = 1
    /\ convErrors = 0
    /\ Len(yielded) = 2

\* C7 (as claimed): once next_batch() has raised a conversion error, no further
\* batch of that epoch is yielded.
C7_ConversionFailureIsFatal ==
    [][(convErrors > 0 /\ convErrors' > 0) => yielded' = yielded]_vars

InStop == cpc \in {"stop_clear", "join"}

\* C9: a stop() that has set the stop flag returns, with the worker thread
\* ended and the worker list cleared, whatever the worker was doing.
C9_StopReturns ==
    InStop ~> (~InStop /\ ~alive /\ workers = None)

\* stop() has returned after waiting for a worker that had enqueued one chunk
\* and held the next one, which it never enqueued
C9_Witness ==
    /\ cpc = "idle" /\ call = "stop" /\ result = "ok"
    /\ ~alive /\ workers = None
    /\ packet.type = "chunk" /\ Len(produced) = 1 /\ Len(packet.batches) > 0
    /\ packet.batches[1] # produced[1]

\* C10 (as claimed): the next_batch() that follows a stop() made mid-epoch
\* raises the end-of-epoch signal.
C10_NextAfterStopRaisesEnd ==
    (cpc = "idle" /\ afterStop = 2) => result = "StopIteration"

\* C10 (amended): the next_batch() that follows a stop() made mid-epoch never
\* raises the end-of-epoch signal: it begins a new epoch, and what it returns
\* is the first batch of the stream, the only batch yielded since.
C10_NextAfterStopRestarts ==
    (cpc = "idle" /\ afterStop = 2) =>
        /\ result \in {"batch", "ValueError", "Exception"}
        /\ result = "batch" =>
               /\ Len(yielded) = 1
               /\ yielded[1].rows = Range(1, Min(batch_size, TotalRows))
               /\ workers = "thread"
        /\ result # "batch" => yielded = <<>>

\* next_batch() has returned a batch right after a stop() made mid-epoch
C10_Witness ==
    /\ cpc = "idle" /\ afterStop = 2 /\ result = "batch"
    /\ TotalRows > batch_size

\* C11: stop() is idempotent: a stop() called when the last completed call was
\* a stop() returns at once (it waits for nothing) and leaves the worker list,
\* the cursor, the queue, the stop flag, the row counter and the thread as
\* the first one left them.
C11_StopIdempotent ==
    [][(cpc = "idle" /\ call = "stop" /\ call' = "stop")
           => /\ cpc' = "idle" /\ result' = "ok"
              /\ UNCHANGED <<workers, batch_itr, q_out, stop_event>>
              /\ UNCHANGED <<num_rows_processed, alive, nthreads>>]_vars

\* a second stop() has returned after a first one that stopped the worker
\* before the end of the stream (afterStop is 1 after the first)
C11_Witness ==
    /\ cpc = "idle" /\ call = "stop" /\ result = "ok"
    /\ afterStop = 0
    /\ failPart = 0 /\ itr <= Len(partitions)
    /\ stop_event /\ workers = None /\ ~alive

\* what begin_epoch() and the next_batch() after it have done, and where the
\* batches yielded come from
RestartedAtHead ==
    /\ (cpc = "idle" /\ afterStop = 3) =>
           /\ result = "ok"
           /\ num_rows_processed = 0
           /\ yielded = <<>>
           /\ batch_itr = NoItr
    /\ (cpc = "idle" /\ afterStop = 4 /\ result = "batch") =>
           /\ Len(yielded) = 1
           /\ yielded[1].rows = Range(1, Min(batch_size, TotalRows))
    /\ convErrors = 0 =>
           /\ Len(YieldedRows) <= Len(Flatten(produced))
           /\ YieldedRows = SubSeq(Flatten(produced), 1, Len(YieldedRows))

\* C12: a begin_epoch() that follows a stop() made mid-epoch restarts from row
\* 0: when it returns the row counter is 0 and nothing has been yielded; the
\* next_batch() that follows returns, if a batch, the first
\* min(batch_size, R) rows of the stream; the batches yielded are at every
\* moment the first ones the worker of this epoch enqueued (none is of an
\* earlier epoch); and the thread __iter__ starts finds the queue empty and
\* starts with no spill, at the head of the stream.
C12_RestartFromRowZero ==
    /\ []RestartedAtHead
    /\ [][(cpc = "iter" /\ workers' = "thread")
              => (q_out' = <<>> /\ spill' = <<>> /\ itr' = 1 /\ ~alive)]_vars

\* after a stop() made mid-epoch and a begin_epoch(), next_batch() has
\* returned a batch of a stream of more rows than one batch
C12_Witness ==
    /\ cpc = "idle" /\ afterStop = 4 /\ result = "batch"
    /\ TotalRows > batch_size

\* the first batch of an epoch, converted: what the first next_batch() that
\* follows a begin_epoch() is to return or raise
FirstBatch == _handle_tensors(Range(1, Min(batch_size, TotalRows)))

\* the last call returned the first batch of the epoch, or raised its
\* conversion error, and no other batch has been yielded
FirstOutcome ==
    /\ result = "batch" =>
           /\ FirstBatch.ok
           /\ yielded = <<[rows |-> FirstBatch.rows, lens |-> FirstBatch.lens]>>
           /\ num_rows_processed = Cardinality(FeatureColumns)
           /\ workers = "thread"
    /\ result = "ValueError" =>
           /\ ~FirstBatch.ok
           /\ yielded = <<>>
           /\ num_rows_processed = 0
           /\ workers = "thread"

\* the first next_batch() after an explicit begin_epoch() has completed with
\* a batch or a conversion error
ExplicitFirstDone ==
    /\ cpc = "idle" /\ call = "next" /\ ~cold
    /\ result \in {"batch", "ValueError"}
    /\ Len(yielded) + convErrors = 1

\* C13: a next_batch() called with no worker list first begins an epoch and
\* then goes on to the first batch: it never returns without one and never
\* raises the end-of-epoch signal, and what it returns or raises is what the
\* first next_batch() after an explicit begin_epoch() returns or raises.
C13_ColdStart ==
    /\ (cpc = "idle" /\ cold) =>
           /\ result \in {"batch", "ValueError", "Exception"}
           /\ FirstOutcome
    /\ ExplicitFirstDone => FirstOutcome

\* a next_batch() made with no worker list, not after a stop(), has returned
\* a batch of a stream of more rows than one batch
C13_Witness ==
    /\ cpc = "idle" /\ cold /\ result = "batch"
    /\ afterStop = 0
    /\ TotalRows > batch_size

\* the partition positions of the block of a rank, as a set
Block(rank) ==
    {_indices_for_process(rank)[k] : k \in 1..Len(_indices_for_process(rank))}

\* C14: when there are no more processes than partitions (1 <= S <= P), the
\* blocks of the ranks 0..S-1 are pairwise disjoint, no block holds a position
\* twice, and together they are exactly the positions 0..P-1.
C14_BlocksPartition ==
    (1 <= global_size /\ global_size <= npartitions) =>
        /\ \A r1, r2 \in 0..(global_size - 1) :
               r1 # r2 => Block(r1) \cap Block(r2) = {}
        /\ \A r \in 0..(global_size - 1) :
               Cardinality(Block(r)) = Len(_indices_for_process(r))
        /\ UNION {Block(r) : r \in 0..(global_size - 1)} = 0..(npartitions - 1)

\* the process of rank 1 of 2 has yielded a batch from its block, the one
\* partition left of 3 by the block of 2 of rank 0
C14_Witness ==
    /\ npartitions = 3 /\ global_size = 2 /\ global_rank = 1
    /\ _indices_for_process(global_rank) = <<2>>
    /\ partitions = <<1>>
    /\ cpc = "idle" /\ result = "batch"

\* C15: with more processes than partitions (S > P) every begin_epoch() and
\* every next_batch() ends with the IndexError of _indices_for_process, raised
\* in the caller's own call; no thread is ever started and nothing is ever
\* enqueued. With S <= P that error is never raised.
C15_TooManyShardsFails ==
    /\ global_size > npartitions =>
           /\ workers = None /\ ~alive /\ nthreads = 0 /\ wpc = "done"
           /\ q_out = <<>> /\ produced = <<>> /\ yielded = <<>>
           /\ (cpc = "idle" /\ call \in {"begin", "next"}) => result = "IndexError"
    /\ global_size <= npartitions => result # "IndexError"

\* a next_batch() made with no worker list has raised the error in a run of
\* 3 processes over 2 partitions
C15_Witness ==
    /\ global_size = 3 /\ npartitions = 2
    /\ cpc = "idle" /\ call = "next" /\ result = "IndexError"

\* C16: the handoff queue never holds more than one item, whatever the order
\* of the worker's puts, the caller's gets and the clears of stop().
C16_QueueHoldsAtMostOne == Len(q_out) <= 1

\* the worker is trying to put a chunk while the queue holds the one before
C16_Witness ==
    /\ Len(q_out) = 1 /\ q_out[1].type = "chunk"
    /\ alive /\ wpc = "put_try" /\ packet.type = "chunk"
    /\ packet # q_out[1]

\* C17: every epoch that runs to the end-of-epoch signal after an earlier one
\* did has yielded as many rows and as many batches as the first such epoch.
C17_EpochResumable ==
    (CleanEndOfEpoch /\ firstEpoch.ended >= 1) =>
        /\ Len(YieldedRows) = firstEpoch.rows
        /\ Len(yielded) = firstEpoch.batches

\* a second epoch has run to the end-of-epoch signal, after a first one that
\* ended with a remainder dropped
C17_Witness ==
    /\ CleanEndOfEpoch
    /\ firstEpoch.ended = 2
    /\ drop_last /\ TotalRows % batch_size > 0
    /\ firstEpoch.batches > 0

\* the state a completed stop() leaves, until the next call
StoppedState ==
    (cpc = "idle" /\ call = "stop") =>
        /\ result = "ok"
        /\ workers = None /\ batch_itr = NoItr
        /\ ~alive /\ nthreads = 0
        /\ q_out = <<>>

\* C18: a stop() called with a worker list returns with the stop flag set, the
\* thread ended, the worker list and the cursor cleared and the queue empty,
\* and they stay so until the next call, whatever the worker did between the
\* setting of the flag and the join (a put after the first clear included).
C18_StopLeavesNothing ==
    /\ []StoppedState
    /\ [][(cpc = "join" /\ ret = "stop" /\ cpc' = "idle")
              => /\ stop_event' /\ ~alive' /\ nthreads' = 0
                 /\ workers' = None /\ batch_itr' = NoItr
                 /\ q_out' = <<>>]_vars

\* stop() has returned in an epoch in which the caller took nothing from the
\* queue and the worker enqueued two chunks of one batch: the second one
\* after the first clear of the queue
C18_Witness ==
    /\ cpc = "idle" /\ call = "stop" /\ result = "ok" /\ stop_event
    /\ failPart = 0 /\ convErrors = 0 /\ yielded = <<>>
    /\ batch_size = 1 /\ parts_per_chunk = 1
    /\ Len(partitions) >= 2 /\ partitions[1] = 1 /\ partitions[2] = 1
    /\ produced = <<<<1>>, <<2>>>>
    /\ q_out = <<>>

\* C19: when next_batch() has raised the exception it took from the queue, the
\* consumer has torn its state down: the thread has ended, the worker list
\* and the cursor are cleared, the queue is empty and the stop flag is set.
C19_TornDownBeforeRaise ==
    (cpc = "idle" /\ result = "Exception") =>
        /\ ~alive /\ nthreads = 0
        /\ workers = None /\ batch_itr = NoItr
        /\ q_out = <<>>
        /\ stop_event

\* the first next_batch() of an epoch has raised the exception of the worker,
\* whose read of the first partition failed
C19_Witness ==
    /\ cpc = "idle" /\ call = "next" /\ result = "Exception"
    /\ raised = 1 /\ failPart = 1
    /\ yielded = <<>>

\* C20: whatever the calls made, at most one load_chunks thread of the loader
\* is alive at any time: a new one is started only when the one before has
\* ended.
C20_AtMostOneThread == nthreads <= 1

\* the thread of a second epoch, begun after a stop() made in the middle of
\* the first, is alive and alone
C20_Witness ==
    /\ afterStop = 4
    /\ alive /\ workers = "thread"
    /\ nthreads = 1

\* a step of chunk_logic that ran one assembly round to its end: it pulled
\* partitions, and either holds a chunk to put or goes round again
AssemblyRound ==
    /\ wpc = "loop" /\ itr' > itr
    /\ wpc' \in {"loop", "put"}
    /\ wpc' = "put" => packet'.type = "chunk"

\* C21: after every assembly round the aligned head has
\* floor(rows / batch_size) * batch_size rows, the new spill has fewer than
\* batch_size rows (as the spill has at every moment), and the head followed
\* by the new spill is the previous spill followed by the rows of the
\* partitions pulled in the round.
C21_RoundSplit ==
    /\ [](Len(spill) < batch_size)
    /\ [][AssemblyRound =>
              LET rows == spill \o concat(itr, itr' - 1)
                  head == IF wpc' = "put" THEN Flatten(packet'.batches) ELSE <<>>
              IN  /\ Len(head) = (Len(rows) \div batch_size) * batch_size
                  /\ Len(spill') < batch_size
                  /\ head \o spill' = rows]_vars

\* a round has cut a spill of one row and a partition of two rows into a head
\* of two rows and a new spill of one
C21_Witness ==
    /\ batch_size = 2 /\ parts_per_chunk = 1
    /\ Len(partitions) >= 2 /\ partitions[1] = 1 /\ partitions[2] = 2
    /\ itr = 3 /\ wpc = "put"
    /\ packet = ChunkPacket(<<<<1, 2>>>>)
    /\ spill = <<3>>

\* two tables of the same rows, each once
SameRows(a, b) ==
    /\ Len(a) = Len(b)
    /\ {a[i] : i \in 1..Len(a)} = {b[i] : i \in 1..Len(b)}
    /\ NoDuplicates(a)

\* C22: with row shuffling on, after every assembly round the new spill is
\* the last (rows mod batch_size) rows of the round's concatenation in input
\* order and the head handed to make_tensors holds the rows before them, each
\* once, in some order; the spill emitted after the stream is exhausted is
\* handed to make_tensors in input order.
C22_ShuffleOnlyHead ==
    [][/\ AssemblyRound =>
              LET rows == spill \o concat(itr, itr' - 1)
                  k == Len(rows) % batch_size
                  head == IF wpc' = "put" THEN Flatten(packet'.batches) ELSE <<>>
              IN  /\ spill' = SubSeq(rows, Len(rows) - k + 1, Len(rows))
                  /\ SameRows(head, SubSeq(rows, 1, Len(rows) - k))
       /\ (wpc = "loop" /\ itr > Len(partitions) /\ wpc' = "put")
              => Flatten(packet'.batches) = spill]_vars

\* a round has cut three rows into a head of two, handed over in the order
\* 2, 1, and a spill of the third
C22_Witness ==
    /\ shuffle
    /\ batch_size = 2 /\ parts_per_chunk = 2 /\ partitions = <<1, 2>>
    /\ itr = 3 /\ wpc = "put"
    /\ packet = ChunkPacket(<<<<2, 1>>>>)
    /\ spill = <<3>>

\* the flat values of a table's list column, row after row
Elems(rows) == Flatten([i \in 1..Len(rows) |-> leaves(rows[i])])

\* the offset of row k + 1 of a table: the elements of its first k rows
Off(rows, k) == Len(Elems(SubSeq(rows, 1, k)))

\* next_batch() has just returned a batch of the chunk under the cursor
JustDelivered ==
    /\ delivered.kept
    /\ cpc = "idle" /\ result = "batch"
    /\ batch_itr.set /\ batch_itr.pos >= 1

\* C23: the list column of every batch returned from a chunk has as values
\* the slice of the chunk's flat values from the offset of the batch's first
\* row to the offset of the next batch's first row (the trailing offset for
\* the last batch) and as index the offsets of its rows less that start, the
\* first being 0; the value slices of a chunk's batches, in order, make up
\* the chunk's flat values, also when the chunk is a single batch.
C23_ListSlices ==
    JustDelivered =>
        LET chunk == Flatten(batch_itr.batches)
            n == batch_itr.pos
            first == (n - 1) * batch_size
            next == Min(n * batch_size, Len(chunk))
            log == delivered.lists
            e == log[Len(log)]
        IN  /\ Len(log) >= n
            /\ e.value = SubSeq(Elems(chunk), Off(chunk, first) + 1, Off(chunk, next))
            /\ e.index = [i \in 1..(next - first) |->
                              Off(chunk, first + i - 1) - Off(chunk, first)]
            /\ e.index[1] = 0
            /\ n = Len(batch_itr.batches) =>
                   Flatten([j \in 1..n |-> log[Len(log) - n + j].value])
                       = Elems(chunk)

\* both batches of a chunk of four rows (lists of 2, 3, 1 and 2 elements)
\* have been returned
C23_Witness ==
    /\ JustDelivered
    /\ batch_size = 2
    /\ batch_itr.batches = <<<<1, 2>>, <<3, 4>>>> /\ batch_itr.pos = 2
    /\ delivered.lists =
           <<[value |-> <<<<1, 1>>, <<1, 2>>, <<2, 1>>, <<2, 2>>, <<2, 3>>>>,
              index |-> <<0, 2>>],
             [value |-> <<<<3, 1>>, <<4, 1>>, <<4, 2>>>>, index |-> <<0, 1>>]>>

\* C24: the index delivered with the list column of a returned batch is
\* non-decreasing and its last entry less its first is the number of
\* elements in the values delivered with it.
C24_OffsetsSpanValues ==
    JustDelivered =>
        LET e == delivered.lists[Len(delivered.lists)]
        IN  /\ \A i \in 1..(Len(e.index) - 1) : e.index[i] <= e.index[i + 1]
            /\ e.index[Len(e.index)] - e.index[1] = Len(e.value)

\* a batch of one row whose list has two elements: the index is <<0>>
C24_Witness ==
    /\ JustDelivered
    /\ batch_itr.batches = <<<<1>>>>
    /\ delivered.lists = <<[value |-> <<<<1, 1>>, <<1, 2>>>>, index |-> <<0>>]>>

\* C25: the processed-row counter is 0 when begin_epoch() returns and, when
\* next_batch() has returned a batch or raised the end-of-epoch signal, is
\* the number of rows returned since the epoch began.
C25_CounterCountsRows ==
    /\ (cpc = "idle" /\ call = "begin" /\ result = "ok")
           => num_rows_processed = 0
    /\ (cpc = "idle" /\ result \in {"batch", "StopIteration"})
           => num_rows_processed = Len(YieldedRows)

\* the first batch of an epoch, of two rows, has been returned and the
\* counter is 1, the number of feature columns
C25_Witness ==
    /\ cpc = "idle" /\ result = "batch"
    /\ YieldedRows = <<1, 2>> /\ Len(yielded) = 1
    /\ num_rows_processed = 1

\* C26: in an epoch that has no batch (len(loader) is 0) and in which nothing
\* fails and stop() is not called, next_batch() is never left waiting on the
\* empty queue after the worker has ended without enqueuing anything.
C26_EmptyEpochEnds ==
    ~ /\ __len__ = 0
      /\ cpc = "fetch"
      /\ q_out = <<>>
      /\ ~alive /\ wpc = "done"
      /\ produced = <<>> /\ yielded = <<>>
      /\ ~Failed /\ ~stop_event

\* one row, batch_size 2 and drop_last: the worker has ended, the first
\* next_batch() of the epoch is in _fetch_chunk and the queue is empty
C26_Witness ==
    /\ batch_size = 2 /\ drop_last /\ partitions = <<1>> /\ failPart = 0
    /\ call = "next" /\ cpc = "fetch"
    /\ workers # None /\ ~alive
    /\ q_out = <<>> /\ produced = <<>> /\ batch_itr = NoItr

\* C27: when there are no more processes than partitions (1 <= S <= P),
\* the block of partition positions of every rank 0..S-1 is non-empty.
C27_EveryRankHasPartitions ==
    (1 <= global_size /\ global_size <= npartitions) =>
        \A r \in 0..(global_size - 1) : _indices_for_process(r) # <<>>

\* the process of rank 2 of 3 over 4 partitions has begun an epoch: its
\* block is empty and its worker has ended without a row
C27_Witness ==
    /\ npartitions = 4 /\ global_size = 3 /\ global_rank = 2
    /\ _indices_for_process(global_rank) = <<>>
    /\ partitions = <<>>
    /\ workers # None /\ ~alive /\ wpc = "done" /\ produced = <<>>

=============================================================================
